---------------------------- MODULE Spec2Model ----------------------------
(***************************************************************************)
(* Model of MPIManager (src/src/mpimgr.cpp, src/include/mpimgr.h): one     *)
(* MPIManager object per MPI process (rank), all processes running the     *)
(* same sequence of public calls (SPMD), the calls chosen                  *)
(* nondeterministically; a program may end in an abort() that only some    *)
(* ranks call (`if (rank == k) abort(msg)`).  A process is suspended only   *)
(* inside MPI_Barrier.                                                     *)
(* Every fmt::print of a log_<level> function is one step, so that the     *)
(* three segments of a line can interleave with other processes' output;   *)
(* a line enters the global output when its last segment (the one ending   *)
(* in the newline) is printed.                                             *)
(* The text of a message is abstracted to the kind of call that produced   *)
(* it and the timer name it mentions; time stamps are not modelled.        *)
(***************************************************************************)
EXTENDS Integers, Sequences, FiniteSets

(* ------------------------------ bounds -------------------------------- *)

\* largest communicator size explored (size ranges over 1..MaxSize)
MaxSize == 2

\* longest sequence of public calls made before the destructor runs
MaxCalls == 2

(* ------------------------- program constants -------------------------- *)

\* enum class Level, in declaration order
emerg == 0

alert == 1

crit == 2

err == 3

warning == 4

notice == 5

info == 6

debug == 7

Level == emerg..debug

\* enum class Ranks
Ranks == {"zero", "all"}

\* the errorcode abort() hands to MPI_Abort
EXIT_FAILURE == 1

\* severities the calls of the explored programs use
CallLevels == {emerg, debug}

\* timers the explored programs start
TimerArgs ==
  {[lvl |-> emerg, name |-> "A"], [lvl |-> debug, name |-> "B"]}

\* the public calls a program is made of
\* (who: the ranks that make the call; abort is the only call made by some ranks only)
Calls ==
  [op : {"log"}, lvl : CallLevels, name : {"-"}, who : {{}}]
    \cup {[op |-> "timer_start", lvl |-> t.lvl, name |-> t.name, who |-> {}] :
             t \in TimerArgs}
    \cup [op : {"timer_stop"}, lvl : {emerg}, name : {"-"}, who : {{}}]
    \cup [op : {"abort"}, lvl : {emerg}, name : {"-"},
          who : {{k} : k \in 0..(MaxSize - 1)} \cup {0..(MaxSize - 1)}]

(* ------------------------------- state -------------------------------- *)

VARIABLES
  proc,       \* proc[r]: the MPIManager object of rank r and the position of its process
  out,        \* the global output: the sequence of printed lines
  prog,       \* the calls the program has made so far (shared by all ranks)
  closed,     \* TRUE once the program's last call is known
  errorcode   \* 0 until MPI_Abort is called, then the errorcode it was given

vars == <<proc, out, prog, closed, errorcode>>

Procs == DOMAIN proc

NoLine == [label |-> "-", kind |-> "-", name |-> "-"]

\* MPIManager::MPIManager: the object of rank r in a communicator of n processes
MPIManager(r, n, lvl, rks) ==
  [ rank   |-> r,            \* MPI_Comm_rank
    size   |-> n,            \* MPI_Comm_size
    level  |-> lvl,          \* highest level to log at
    ranks  |-> rks,          \* ranks to log on
    timers |-> <<>>,         \* stack of timers
    pc     |-> "idle",       \* position of the process
    ip     |-> 0,            \* number of public calls made
    i      |-> 0,            \* loop index of log's Ranks::all branch
    line   |-> NoLine,       \* the line the running log_<level> prints
    dtor   |-> FALSE,        \* ~MPIManager has begun
    finalized |-> FALSE,     \* MPI_Finalize has been called
    it     |-> 0,            \* position of the destructor's range-for
    rng    |-> <<>>,         \* the timers as they were when the range-for began
    bar    |-> 0,            \* MPI_Barrier calls made
    bar0   |-> 0 ]           \* bar when the running public call began

Init ==
  /\ \E n \in 1..MaxSize, lvl \in Level, rks \in Ranks :
        proc = [r \in 0..(n - 1) |-> MPIManager(r, n, lvl, rks)]
  /\ out = <<>>
  /\ prog = <<>>
  /\ closed = FALSE
  /\ errorcode = 0

(* ------------------------- MPIManager methods ------------------------- *)

\* faulty variant: the severity filter lets every level through
sufficient_level_always(p, lvl) ==
  TRUE

\* faulty variant: the comparison of the severity filter is turned round
sufficient_level_reversed(p, lvl) ==
  IF lvl >= p.level THEN TRUE ELSE FALSE

\* MPIManager::sufficient_level
sufficient_level(p, lvl) ==
  IF lvl <= p.level THEN TRUE ELSE FALSE

\* MPIManager::sufficient_rank
sufficient_rank(p) ==
  IF p.ranks = "zero" THEN 0 = p.rank ELSE TRUE

\* the log_<level> function each case of log's switch calls, by the label it prints
log_fn(lvl) ==
  CASE lvl = emerg   -> "EMERG"
    [] lvl = alert   -> "ALERT"
    [] lvl = crit    -> "CRIT"
    [] lvl = err     -> "ERR"
    [] lvl = warning -> "WARNING"
    [] lvl = notice  -> "NOTICE"
    [] lvl = info    -> "INFO"
    [] lvl = debug   -> "DEBUG"

\* the severity a printed label stands for
Severity(label) ==
  CHOOSE l \in Level : log_fn(l) = label

\* faulty variant: the oldest timer is removed instead of the newest
pop_front(s) ==
  SubSeq(s, 2, Len(s))

\* timers.pop_back()
pop_back(s) ==
  SubSeq(s, 1, Len(s) - 1)

\* timers.back()
back(s) ==
  s[Len(s)]

\* the end of a public call: control goes back to the caller
Idle(p) ==
  [p EXCEPT !.pc = "idle", !.line = NoLine]

\* the end of one timer_stop(): back in the destructor's loop (++it) or in the caller
AfterStop(p) ==
  IF p.dtor
    THEN [p EXCEPT !.pc = "dtor_loop", !.it = @ + 1, !.line = NoLine]
    ELSE Idle(p)

\* the return of log(): what its caller does next
\*   timer_stop   : timers.pop_back(), then returns
\*   ~MPIManager  : enters the range-for over timers
\*   timer_start, the program : return
Return(p) ==
  CASE p.line.kind = "stop" -> AfterStop([p EXCEPT !.timers = pop_back(@)])
    [] p.line.kind = "warn" ->
         [p EXCEPT !.pc = "dtor_loop", !.it = 0, !.rng = p.timers, !.line = NoLine]
    [] OTHER -> Idle(p)

\* faulty variant: the loop lets the ranks print from the highest rank down
LoopTestReversed(p) ==
  IF p.i < p.size
    THEN IF p.rank = p.size - 1 - p.i
           THEN [p EXCEPT !.pc = "print1"]
           ELSE [p EXCEPT !.pc = "barrier"]
    ELSE Return(p)

\* the head of `for (i : iota(0, size))` in log's Ranks::all branch
LoopTest(p) ==
  IF p.i < p.size
    THEN IF p.rank = p.i
           THEN [p EXCEPT !.pc = "print1"]
           ELSE [p EXCEPT !.pc = "barrier"]
    ELSE Return(p)

\* faulty variant: log without the rank filter: under Ranks::zero every rank prints
log_any_rank(p, lvl, kind, name) ==
  LET q == [p EXCEPT !.line = [label |-> log_fn(lvl), kind |-> kind, name |-> name]]
  IN  IF sufficient_level(p, lvl)
        THEN IF p.ranks = "zero"
               THEN [q EXCEPT !.pc = "print1"]
               ELSE LoopTest([q EXCEPT !.i = 0])
        ELSE Return(q)

\* MPIManager::log, up to its first print or barrier
log(p, lvl, kind, name) ==
  LET q == [p EXCEPT !.line = [label |-> log_fn(lvl), kind |-> kind, name |-> name]]
  IN  IF sufficient_rank(p) /\ sufficient_level(p, lvl)
        THEN IF p.ranks = "zero"
               THEN IF 0 = p.rank
                      THEN [q EXCEPT !.pc = "print1"]
                      ELSE Return(q)
               ELSE LoopTest([q EXCEPT !.i = 0])
        ELSE Return(q)

\* faulty variant: timer_start logs the start but pushes no timer
timer_start_no_push(p, lvl, name) ==
  IF sufficient_rank(p) /\ sufficient_level(p, lvl)
    THEN log(p, lvl, "start", name)
    ELSE Idle(p)

\* faulty variant: timer_start pushes the timer before it tests the filters
timer_start_push_first(p, lvl, name) ==
  LET q == [p EXCEPT !.timers = Append(@, [level |-> lvl, name |-> name])]
  IN  IF sufficient_rank(p) /\ sufficient_level(p, lvl)
        THEN log(q, lvl, "start", name)
        ELSE Idle(q)

\* faulty variant: timer_start tests the rank filter only
timer_start_no_level_filter(p, lvl, name) ==
  IF sufficient_rank(p)
    THEN log([p EXCEPT !.timers = Append(@, [level |-> lvl, name |-> name])],
             lvl, "start", name)
    ELSE Idle(p)

\* MPIManager::timer_start
timer_start(p, lvl, name) ==
  IF sufficient_rank(p) /\ sufficient_level(p, lvl)
    THEN log([p EXCEPT !.timers = Append(@, [level |-> lvl, name |-> name])],
             lvl, "start", name)
    ELSE Idle(p)

\* faulty variant: timer_stop reports an empty stack instead of staying silent
timer_stop_noisy(p) ==
  IF sufficient_rank(p)
    THEN IF p.timers # <<>>
           THEN log(p, back(p.timers).level, "stop", back(p.timers).name)
           ELSE log(p, emerg, "log", "-")
    ELSE AfterStop(p)

\* MPIManager::timer_stop
timer_stop(p) ==
  IF sufficient_rank(p) /\ p.timers # <<>>
    THEN log(p, back(p.timers).level, "stop", back(p.timers).name)
    ELSE AfterStop(p)

\* faulty variant: abort prints through log(), so the filters and the barriers apply
abort_via_log(p) ==
  log(p, emerg, "abort", "-")

\* MPIManager::abort, up to its first print
abort(p) ==
  [p EXCEPT !.pc = "print1",
            !.line = [label |-> "EMERG", kind |-> "abort", name |-> "-"]]

\* MPI_Finalize(), the last statement of ~MPIManager: the process leaves the runtime
MPI_Finalize(p) ==
  [p EXCEPT !.finalized = TRUE, !.pc = "done"]

\* faulty variant: the destructor drains the timers without the warning
Destructor_no_warning(p) ==
  LET q == [p EXCEPT !.dtor = TRUE]
  IN  IF q.timers # <<>>
        THEN [q EXCEPT !.pc = "dtor_loop", !.it = 0, !.rng = q.timers]
        ELSE MPI_Finalize(q)

\* faulty variant: the destructor leaves the runtime first and drains the timers after
Destructor_finalize_first(p) ==
  LET q == [p EXCEPT !.dtor = TRUE, !.finalized = TRUE]
  IN  IF q.timers # <<>>
        THEN log(q, warning, "warn", "-")
        ELSE MPI_Finalize(q)

\* MPIManager::~MPIManager, up to its first print or barrier
Destructor(p) ==
  LET q == [p EXCEPT !.dtor = TRUE]
  IN  IF q.timers # <<>>
        THEN log(q, warning, "warn", "-")
        ELSE MPI_Finalize(q)

\* the line a log_<level> function has printed: "Rank <rank>: [<label>]: <msg>"
Line(p) ==
  [rank |-> p.rank, label |-> p.line.label, kind |-> p.line.kind,
   name |-> p.line.name, call |-> p.ip, dtor |-> p.dtor]

\* faulty variant: the rank that has printed goes on without the barrier
AfterPrint_skip_barrier(p) ==
  IF p.line.kind = "abort"
    THEN [p EXCEPT !.pc = "mpi_abort"]
    ELSE IF p.ranks = "zero" THEN Return(p) ELSE LoopTest([p EXCEPT !.i = @ + 1])

\* faulty variant: the Ranks::zero case calls the barrier like the Ranks::all case
AfterPrint_always_barrier(p) ==
  IF p.line.kind = "abort"
    THEN [p EXCEPT !.pc = "mpi_abort"]
    ELSE [p EXCEPT !.pc = "barrier"]

\* what follows the last fmt::print of a log_<level> function
AfterPrint(p) ==
  IF p.line.kind = "abort"
    THEN [p EXCEPT !.pc = "mpi_abort"]
    ELSE IF p.ranks = "zero" THEN Return(p) ELSE [p EXCEPT !.pc = "barrier"]

(* ------------------------------ actions ------------------------------- *)

\* rank r makes its next public call, c: the next call of the program, or a
\* new one when r is the first rank to get this far
Fetch(r, c) ==
  /\ proc[r].pc = "idle"
  /\ \/ /\ proc[r].ip < Len(prog)
        /\ c = prog[proc[r].ip + 1]
        /\ prog' = prog
     \/ /\ proc[r].ip = Len(prog)
        /\ ~closed
        /\ Len(prog) < MaxCalls
        /\ prog' = Append(prog, c)

Enter(p) ==
  [p EXCEPT !.ip = @ + 1, !.bar0 = p.bar]

CallLog(r) ==
  \E c \in Calls :
    /\ c.op = "log"
    /\ Fetch(r, c)
    /\ proc' = [proc EXCEPT ![r] = log(Enter(@), c.lvl, "log", "-")]
    /\ UNCHANGED <<out, closed, errorcode>>

CallTimerStart(r) ==
  \E c \in Calls :
    /\ c.op = "timer_start"
    /\ Fetch(r, c)
    /\ proc' = [proc EXCEPT ![r] = timer_start(Enter(@), c.lvl, c.name)]
    /\ UNCHANGED <<out, closed, errorcode>>

CallTimerStop(r) ==
  \E c \in Calls :
    /\ c.op = "timer_stop"
    /\ Fetch(r, c)
    /\ proc' = [proc EXCEPT ![r] = timer_stop(Enter(@))]
    /\ UNCHANGED <<out, closed, errorcode>>

\* the program's last statement, `if (rank \in who) abort(msg)`
CallAbort(r) ==
  \E c \in Calls :
    /\ c.op = "abort"
    /\ c.who \subseteq Procs
    /\ Fetch(r, c)
    /\ closed' = TRUE
    /\ proc' = [proc EXCEPT ![r] = IF r \in c.who THEN abort(Enter(@)) ELSE Idle(Enter(@))]
    /\ UNCHANGED <<out, errorcode>>

\* the program ends and the MPIManager object of rank r is destroyed
Teardown(r) ==
  /\ proc[r].pc = "idle"
  /\ proc[r].ip = Len(prog)
  /\ closed' = TRUE
  /\ proc' = [proc EXCEPT ![r] = Destructor(Enter(@))]
  /\ UNCHANGED <<out, prog, errorcode>>

\* one fmt::print of the running log_<level> function
fmt_print(r) ==
  \E part \in 1..3 :
    /\ proc[r].pc = <<"print1", "print2", "print3">>[part]
    /\ out' = IF part < 3 THEN out ELSE Append(out, Line(proc[r]))
    /\ proc' = [proc EXCEPT ![r] =
                  IF part < 3
                    THEN [@ EXCEPT !.pc = <<"print2", "print3">>[part]]
                    ELSE AfterPrint(@)]
    /\ UNCHANGED <<prog, closed, errorcode>>

\* MPI_Barrier is called
BarrierEnter(r) ==
  /\ proc[r].pc = "barrier"
  /\ proc' = [proc EXCEPT ![r] = [@ EXCEPT !.pc = "inbarrier", !.bar = @ + 1]]
  /\ UNCHANGED <<out, prog, closed, errorcode>>

\* faulty variant: the barrier does not wait for the other processes
BarrierExitNoWait(r) ==
  /\ proc[r].pc = "inbarrier"
  /\ proc' = [proc EXCEPT ![r] = LoopTest([@ EXCEPT !.i = @ + 1])]
  /\ UNCHANGED <<out, prog, closed, errorcode>>

\* MPI_Barrier returns: every process of the communicator has made the call
BarrierExit(r) ==
  /\ proc[r].pc = "inbarrier"
  /\ \A q \in Procs : proc[q].bar >= proc[r].bar
  /\ proc' = [proc EXCEPT ![r] = LoopTest([@ EXCEPT !.i = @ + 1])]
  /\ UNCHANGED <<out, prog, closed, errorcode>>

\* one turn of `for (auto timer : timers) timer_stop();`.  begin() and end()
\* were taken when the loop began; copying *it after that element was popped
\* is undefined: the copy may go through (the copy is never used) or the
\* process may die.
DtorLoop(r) ==
  /\ proc[r].pc = "dtor_loop"
  /\ \/ /\ proc[r].it = Len(proc[r].rng)
        /\ proc' = [proc EXCEPT ![r] = MPI_Finalize(@)]
     \/ /\ proc[r].it < Len(proc[r].rng)
        /\ proc' = [proc EXCEPT ![r] = timer_stop(@)]
     \/ /\ proc[r].it < Len(proc[r].rng)
        /\ proc[r].it >= Len(proc[r].timers)
        /\ proc' = [proc EXCEPT ![r] = [@ EXCEPT !.pc = "crashed"]]
  /\ UNCHANGED <<out, prog, closed, errorcode>>

\* MPI_Abort(comm, EXIT_FAILURE): every process of the group is terminated
MPIAbort(r) ==
  /\ proc[r].pc = "mpi_abort"
  /\ proc' = [q \in Procs |->
                IF proc[q].pc \in {"done", "crashed"}
                  THEN proc[q]
                  ELSE [proc[q] EXCEPT !.pc = "aborted"]]
  /\ errorcode' = EXIT_FAILURE
  /\ UNCHANGED <<out, prog, closed>>

Next ==
  \/ \E r \in Procs : CallLog(r)
  \/ \E r \in Procs : CallTimerStart(r)
  \/ \E r \in Procs : CallTimerStop(r)
  \/ \E r \in Procs : CallAbort(r)
  \/ \E r \in Procs : Teardown(r)
  \/ \E r \in Procs : fmt_print(r)
  \/ \E r \in Procs : BarrierEnter(r)
  \/ \E r \in Procs : BarrierExit(r)
  \/ \E r \in Procs : DtorLoop(r)
  \/ \E r \in Procs : MPIAbort(r)

Spec == Init /\ [][Next]_vars

(* --------------------------- properties ------------------------------- *)

\* the configuration, the same on every rank
Cfg == proc[0]

\* the positions of a process inside a log_<level> function
Printing == {"print1", "print2", "print3"}

\* the lines of the output that satisfy Test, in output order
Lines(Test(_)) ==
  SelectSeq(out, Test)

\* rank r has returned from public call k
Returned(r, k) ==
  \/ proc[r].ip > k
  \/ proc[r].ip = k /\ proc[r].pc = "idle"

\* no call of the program so far is an abort
NoAbortCall ==
  \A k \in 1..Len(prog) : prog[k].op # "abort"

\* rank r has called abort()
Aborting(r) ==
  /\ proc[r].ip \in 1..Len(prog)
  /\ prog[proc[r].ip].op = "abort"
  /\ r \in prog[proc[r].ip].who

\* C1: under Ranks::all, the lines of one log call whose severity passes come
\* out in rank order 0, 1, 2, ..., one per rank, in every interleaving; once
\* every rank has returned from the call all `size` lines are there.
C1_RankOrder ==
  \A k \in 1..Len(prog) :
    (Cfg.ranks = "all" /\ prog[k].op = "log" /\ prog[k].lvl <= Cfg.level) =>
      LET ls == Lines(LAMBDA l : l.call = k /\ l.kind = "log")
      IN  /\ \A j \in 1..Len(ls) : ls[j].rank = j - 1
          /\ (\A r \in Procs : Returned(r, k)) => Len(ls) = Cfg.size

C1_Witness ==
  /\ Cfg.ranks = "all"
  /\ Cfg.size >= 2
  /\ Len(prog) >= 1
  /\ prog[1].op = "log"
  /\ \A r \in Procs : Returned(r, 1)
  /\ Len(Lines(LAMBDA l : l.call = 1 /\ l.kind = "log")) = Cfg.size

\* C2: under Ranks::all, while the program makes no abort call, at most one
\* process is in the emit section of a log_<level> function (before, between or
\* at its three prints), so no segment lands inside another rank's line.
C2_OneEmitter ==
  (Cfg.ranks = "all" /\ NoAbortCall) =>
    \A r, q \in Procs :
      (proc[r].pc \in Printing /\ proc[q].pc \in Printing) => r = q

C2_Witness ==
  /\ Cfg.ranks = "all"
  /\ NoAbortCall
  /\ Cfg.size >= 2
  /\ proc[1].pc = "print2"
  /\ Len(out) >= 1

\* C3 as stated: under Ranks::zero every line of the output, whatever call
\* printed it, was printed by rank 0.
C3_Original ==
  Cfg.ranks = "zero" => \A j \in 1..Len(out) : out[j].rank = 0

\* C3 as amended: under Ranks::zero every line printed by log, timer_start,
\* timer_stop or the destructor was printed by rank 0, and no other rank is
\* ever printing such a line; only abort prints on the rank that calls it.
C3_OnlyLeader ==
  Cfg.ranks = "zero" =>
    /\ \A j \in 1..Len(out) : out[j].kind # "abort" => out[j].rank = 0
    /\ \A r \in Procs :
         (proc[r].pc \in Printing /\ proc[r].line.kind # "abort") => r = 0

C3_Witness ==
  /\ Cfg.ranks = "zero"
  /\ Cfg.size >= 2
  /\ Len(prog) >= 1
  /\ prog[1].op = "log"
  /\ \A r \in Procs : Returned(r, 1)
  /\ Len(out) = 1
  /\ out[1].rank = 0

\* C4: every line printed by log, timer_start, timer_stop or the destructor
\* has a severity no lower in order than the configured level allows
\* (s <= level) and was printed on a rank that passes the rank filter; so has
\* every such line being printed.
C4_Filtered ==
  /\ \A j \in 1..Len(out) :
       out[j].kind # "abort" =>
         /\ Severity(out[j].label) <= Cfg.level
         /\ Cfg.ranks = "zero" => out[j].rank = 0
  /\ \A r \in Procs :
       (proc[r].pc \in Printing /\ proc[r].line.kind # "abort") =>
         /\ Severity(proc[r].line.label) <= Cfg.level
         /\ Cfg.ranks = "zero" => r = 0

C4_Witness ==
  /\ Cfg.level = debug
  /\ \E j \in 1..Len(out) :
       /\ out[j].kind = "stop"
       /\ out[j].label = "DEBUG"
       /\ ~out[j].dtor

\* the abort lines rank r has printed
AbortLines(r) ==
  Lines(LAMBDA l : l.rank = r /\ l.kind = "abort")

\* C5: a rank that has called abort() never returns from it and makes no
\* barrier call; when it reaches MPI_Abort it has printed exactly one line, an
\* emergency line, whatever the configuration; MPI_Abort ends every process of
\* the group with the non-zero status EXIT_FAILURE, and from then on no line
\* is printed, no barrier is called and no timer stack changes.
C5_AbortState ==
  /\ \A r \in Procs :
       Aborting(r) =>
         /\ proc[r].pc \in Printing \cup {"mpi_abort", "aborted"}
         /\ proc[r].bar = proc[r].bar0
         /\ proc[r].pc \in Printing => Len(AbortLines(r)) = 0
         /\ proc[r].pc = "mpi_abort" =>
              /\ Len(AbortLines(r)) = 1
              /\ AbortLines(r)[1].label = "EMERG"
         /\ proc[r].pc = "aborted" => Len(AbortLines(r)) <= 1
  /\ errorcode # 0 =>
       /\ errorcode = EXIT_FAILURE
       /\ \A q \in Procs : proc[q].pc \in {"aborted", "done", "crashed"}
  /\ (\E r \in Procs : proc[r].pc = "aborted") => errorcode # 0

C5_AbortStep ==
  /\ (\E r \in Procs : proc[r].pc = "mpi_abort" /\ proc'[r].pc # "mpi_abort") =>
       errorcode' # 0
  /\ errorcode # 0 =>
       /\ out' = out
       /\ \A q \in Procs :
            /\ proc'[q].bar = proc[q].bar
            /\ proc'[q].timers = proc[q].timers

C5_Abort ==
  []C5_AbortState /\ [][C5_AbortStep]_vars

C5_Witness ==
  /\ Cfg.ranks = "zero"
  /\ Cfg.level = emerg
  /\ Cfg.size >= 2
  /\ errorcode = EXIT_FAILURE
  /\ Len(AbortLines(1)) = 1
  /\ proc[0].pc = "aborted"
  /\ proc[0].line.kind = "start"

\* C6 as stated: whatever the configured level, every stop line the
\* destructor prints on a rank comes after a warning line of that rank.
C6_Original ==
  \A j \in 1..Len(out) :
    (out[j].kind = "stop" /\ out[j].dtor) =>
      \E i \in 1..(j - 1) : out[i].kind = "warn" /\ out[i].rank = out[j].rank

\* C6 as amended: when the configured level lets warnings through
\* (warning..debug), every stop line the destructor prints on a rank comes
\* after a warning line of that rank; under a more severe level (emerg..err)
\* the warning is filtered out: no warning line is ever printed, and the
\* destructor's stop lines come without it.
C6_WarningFirst ==
  /\ Cfg.level >= warning =>
       \A j \in 1..Len(out) :
         (out[j].kind = "stop" /\ out[j].dtor) =>
           \E i \in 1..(j - 1) :
             /\ out[i].kind = "warn"
             /\ out[i].label = "WARNING"
             /\ out[i].rank = out[j].rank
  /\ Cfg.level < warning =>
       /\ \A j \in 1..Len(out) : out[j].kind # "warn"
       /\ \A r \in Procs : proc[r].pc \in Printing => proc[r].line.kind # "warn"

C6_Witness ==
  /\ Cfg.level = warning
  /\ \E j \in 1..Len(out) : out[j].kind = "stop" /\ out[j].dtor

\* the stop lines the destructor of rank r has printed
DtorStops(r) ==
  Lines(LAMBDA l : l.rank = r /\ l.kind = "stop" /\ l.dtor)

\* C7: when the destructor of a rank has come to its end, it has printed one
\* stop line for each timer that was open when it began, the most recently
\* started first, and the timer stack is empty.
C7_TeardownStopsAll ==
  \A r \in Procs :
    (proc[r].dtor /\ proc[r].pc \in {"done", "crashed"}) =>
      /\ proc[r].timers = <<>>
      /\ Len(DtorStops(r)) = Len(proc[r].rng)
      /\ \A j \in 1..Len(DtorStops(r)) :
           DtorStops(r)[j].name = proc[r].rng[Len(proc[r].rng) + 1 - j].name

\* C8: MPI_Finalize is the last thing a process does: once it has left the
\* runtime it is at the end of the destructor, and from then on it prints no
\* line and calls no barrier.
C8_LeftState ==
  \A r \in Procs :
    proc[r].finalized => (proc[r].dtor /\ proc[r].pc = "done")

C8_LeftStep ==
  \A r \in Procs :
    proc[r].finalized =>
      /\ proc'[r].bar = proc[r].bar
      /\ out' = out \/ out'[Len(out')].rank # r

C8_LeaveLast ==
  []C8_LeftState /\ [][C8_LeftStep]_vars

C8_Witness ==
  \E r \in Procs :
    /\ proc[r].finalized
    /\ proc[r].bar > proc[r].bar0
    /\ Len(DtorStops(r)) >= 1
    /\ \E j \in 1..Len(out) : out[j].kind = "warn" /\ out[j].rank = r

\* the timers open on rank r after the first k calls of the program: a
\* timer_start that passes both filters opens one, a timer_stop on a rank
\* that passes the rank filter closes the one opened last
RECURSIVE Open(_, _)
Open(r, k) ==
  IF k = 0
    THEN <<>>
    ELSE LET s == Open(r, k - 1)
             c == prog[k]
             pass == Cfg.ranks = "all" \/ r = 0
         IN  CASE c.op = "timer_start" /\ pass /\ c.lvl <= Cfg.level ->
                    Append(s, [level |-> c.lvl, name |-> c.name])
               [] c.op = "timer_stop" /\ pass /\ s # <<>> ->
                    SubSeq(s, 1, Len(s) - 1)
               [] OTHER -> s

\* C9: between calls the stack of a rank holds exactly the timers started and
\* accepted and not yet stopped, the most recent on top; a stop line names the
\* timer on top of the stack and carries its level; in the destructor's loop
\* each timer_stop has removed the top and nothing else.
C9_StackDiscipline ==
  \A r \in Procs :
    /\ proc[r].pc = "idle" => proc[r].timers = Open(r, proc[r].ip)
    /\ proc[r].line.kind = "stop" =>
         /\ proc[r].timers # <<>>
         /\ proc[r].line.name = proc[r].timers[Len(proc[r].timers)].name
         /\ proc[r].line.label = log_fn(proc[r].timers[Len(proc[r].timers)].level)
    /\ proc[r].pc = "dtor_loop" =>
         /\ proc[r].it <= Len(proc[r].rng)
         /\ proc[r].timers = SubSeq(proc[r].rng, 1, Len(proc[r].rng) - proc[r].it)

C9_Witness ==
  \E r \in Procs :
    /\ proc[r].pc = "dtor_loop"
    /\ proc[r].it = 1
    /\ Len(proc[r].rng) = 2
    /\ proc[r].rng[1] # proc[r].rng[2]
    /\ proc[r].timers = <<proc[r].rng[1]>>
    /\ Len(out) >= 1
    /\ out[Len(out)].kind = "stop"
    /\ out[Len(out)].name = proc[r].rng[2].name

\* C10: a timer_stop call made with an empty stack returns at once: it prints
\* no line, calls no barrier, leaves the stack empty and the process running.
C10_EmptyStopStep ==
  \A r \in Procs :
    ( /\ proc[r].pc = "idle"
      /\ proc[r].timers = <<>>
      /\ proc'[r].ip = proc[r].ip + 1
      /\ proc'[r].ip <= Len(prog')
      /\ prog'[proc'[r].ip].op = "timer_stop" ) =>
        /\ proc'[r].pc = "idle"
        /\ out' = out
        /\ proc'[r].bar = proc[r].bar
        /\ proc'[r].timers = <<>>

C10_EmptyStop ==
  [][C10_EmptyStopStep]_vars

C10_Witness ==
  /\ Cfg.ranks = "all"
  /\ Len(prog) >= 1
  /\ prog[1].op = "timer_stop"
  /\ out = <<>>
  /\ \E r \in Procs :
       /\ proc[r].ip = 1
       /\ proc[r].pc = "idle"
       /\ proc[r].bar = 0

\* the lines rank r has printed in public calls k and k + 1
PairLines(r, k) ==
  Lines(LAMBDA l : l.rank = r /\ l.call \in {k, k + 1})

\* C11: when call k is a timer_start(s, name) that passes both filters on rank
\* r and call k + 1 is a timer_stop, then once r has returned from the
\* timer_stop it has printed exactly two lines in the two calls, a start line
\* and then a stop line, both naming the timer and both at severity s, and its
\* stack is what it was before the timer_start.
C11_StartStopPair ==
  \A r \in Procs : \A k \in 1..(Len(prog) - 1) :
    ( /\ prog[k].op = "timer_start"
      /\ prog[k + 1].op = "timer_stop"
      /\ prog[k].lvl <= Cfg.level
      /\ Cfg.ranks = "all" \/ r = 0
      /\ proc[r].ip = k + 1
      /\ proc[r].pc = "idle" ) =>
        /\ Len(PairLines(r, k)) = 2
        /\ PairLines(r, k)[1].kind = "start"
        /\ PairLines(r, k)[2].kind = "stop"
        /\ \A j \in 1..2 :
             /\ PairLines(r, k)[j].name = prog[k].name
             /\ Severity(PairLines(r, k)[j].label) = prog[k].lvl
        /\ proc[r].timers = Open(r, k - 1)

C11_Witness ==
  /\ Cfg.ranks = "all"
  /\ Cfg.size >= 2
  /\ Len(prog) = 2
  /\ prog[1].op = "timer_start"
  /\ prog[1].lvl = debug
  /\ prog[2].op = "timer_stop"
  /\ \A r \in Procs : proc[r].ip = 2 /\ proc[r].pc = "idle"
  /\ Len(out) = 2 * Cfg.size

\* C12: the severity filter accepts s exactly when s <= level, for each of
\* the 8 levels and each configured level; so whenever it accepts s2 it
\* accepts every s1 <= s2.
C12_Monotone ==
  \A r \in Procs :
    /\ \A s \in Level : sufficient_level(proc[r], s) <=> s <= proc[r].level
    /\ \A s2 \in Level :
         sufficient_level(proc[r], s2) =>
           \A s1 \in emerg..s2 : sufficient_level(proc[r], s1)

\* a configured level strictly inside the order; the filter has dropped a
\* debug log call and let an emerg log call through
C12_Witness ==
  /\ Cfg.level = warning
  /\ Cfg.ranks = "all"
  /\ Len(prog) = 2
  /\ prog[1] = [op |-> "log", lvl |-> debug, name |-> "-", who |-> {}]
  /\ prog[2] = [op |-> "log", lvl |-> emerg, name |-> "-", who |-> {}]
  /\ \A r \in Procs : Returned(r, 2)
  /\ Len(out) = Cfg.size
  /\ \A j \in 1..Len(out) : out[j].label = "EMERG"

\* C13: under Ranks::all, in a program without abort, the processes never get
\* stuck: in every reachable state either every rank has left the runtime or
\* some process can take a step (no rank is left waiting in a barrier that
\* cannot complete, and none has died).
C13_NoRankBlocks ==
  (Cfg.ranks = "all" /\ NoAbortCall) =>
    \/ \A r \in Procs : proc[r].finalized /\ proc[r].pc = "done"
    \/ ENABLED Next

\* the barrier calls rank r has made since its running (or last) public call began
BarriersInCall(r) ==
  proc[r].bar - proc[r].bar0

\* C14: under Ranks::all a log call whose severity passes makes every rank
\* call the barrier once after each index 0..size-1, whether it prints at that
\* index or not: at index i it has made i calls before the barrier and i + 1
\* in it, it prints at index i = rank only, and it returns with exactly `size`
\* calls made; a log call whose severity fails returns with none.
C14_BarrierCount ==
  \A r \in Procs :
    ( /\ Cfg.ranks = "all"
      /\ proc[r].ip \in 1..Len(prog)
      /\ prog[proc[r].ip].op = "log" ) =>
        IF prog[proc[r].ip].lvl <= Cfg.level
          THEN /\ proc[r].pc \in Printing =>
                    (proc[r].i = r /\ BarriersInCall(r) = proc[r].i)
               /\ proc[r].pc = "barrier" =>
                    (proc[r].i < Cfg.size /\ BarriersInCall(r) = proc[r].i)
               /\ proc[r].pc = "inbarrier" =>
                    (proc[r].i < Cfg.size /\ BarriersInCall(r) = proc[r].i + 1)
               /\ proc[r].pc = "idle" => BarriersInCall(r) = Cfg.size
               /\ proc[r].pc # "aborted" => proc[r].pc \in Printing \cup {"barrier", "inbarrier", "idle"}
          ELSE /\ proc[r].pc \in {"idle", "aborted"}
               /\ BarriersInCall(r) = 0

C14_Witness ==
  /\ Cfg.ranks = "all"
  /\ Cfg.size >= 2
  /\ Len(prog) = 2
  /\ prog[1].op = "log"
  /\ prog[1].lvl > Cfg.level
  /\ prog[2].op = "log"
  /\ prog[2].lvl <= Cfg.level
  /\ \A r \in Procs :
       /\ proc[r].ip = 2
       /\ proc[r].pc = "idle"
       /\ proc[r].bar = Cfg.size

\* a step of the process of rank r
RankStep(r) ==
  \/ fmt_print(r)
  \/ DtorLoop(r)
  \/ MPIAbort(r)
  \/ BarrierEnter(r)
  \/ BarrierExit(r)
  \/ Teardown(r)
  \/ CallLog(r)
  \/ CallTimerStart(r)
  \/ CallTimerStop(r)
  \/ CallAbort(r)

\* C15: under Ranks::zero no rank ever calls the barrier, in log, timer_start,
\* timer_stop or the destructor, so a process that has not ended can always
\* take its next step, wherever the other processes are.
C15_NoBarrier ==
  Cfg.ranks = "zero" =>
    \A r \in Procs :
      /\ proc[r].bar = 0
      /\ proc[r].pc \notin {"barrier", "inbarrier"}
      /\ proc[r].pc \notin {"done", "crashed", "aborted"} => ENABLED RankStep(r)

C15_Witness ==
  /\ Cfg.ranks = "zero"
  /\ Cfg.size >= 2
  /\ proc[0].finalized
  /\ Len(DtorStops(0)) >= 1
  /\ \E j \in 1..Len(out) : out[j].kind = "warn"
  /\ proc[1].ip = 0

\* C16: a log or timer_start call that fails the rank filter or the severity
\* filter returns at once and changes nothing: no line is printed, no barrier
\* is called, and the timer stack, the configuration and the identity of the
\* process stay as they were.
C16_FilteredStep ==
  \A r \in Procs :
    ( /\ proc[r].pc = "idle"
      /\ proc'[r].ip = proc[r].ip + 1
      /\ proc'[r].ip <= Len(prog')
      /\ prog'[proc'[r].ip].op \in {"log", "timer_start"}
      /\ ~( /\ Cfg.ranks = "all" \/ r = 0
            /\ prog'[proc'[r].ip].lvl <= Cfg.level ) ) =>
        /\ proc'[r].pc = "idle"
        /\ out' = out
        /\ proc'[r].bar = proc[r].bar
        /\ proc'[r].timers = proc[r].timers
        /\ proc'[r].level = proc[r].level
        /\ proc'[r].ranks = proc[r].ranks
        /\ proc'[r].rank = proc[r].rank
        /\ proc'[r].size = proc[r].size

C16_Filtered ==
  [][C16_FilteredStep]_vars

C16_Witness ==
  /\ Cfg.ranks = "zero"
  /\ Cfg.size >= 2
  /\ Cfg.level = notice
  /\ Len(prog) = 2
  /\ prog[1].op = "timer_start"
  /\ prog[1].lvl = emerg
  /\ prog[2].op = "timer_start"
  /\ prog[2].lvl = debug
  /\ \A r \in Procs : proc[r].ip = 2 /\ proc[r].pc = "idle"
  /\ Len(proc[0].timers) = 1
  /\ proc[1].timers = <<>>
  /\ Len(out) = 1

\* the stop lines rank r has printed in the call it is in: in the program's
\* call number ip when dtor is FALSE, in the destructor when dtor is TRUE
StopsInCall(o, r) ==
  SelectSeq(o, LAMBDA l : /\ l.rank = r
                          /\ l.kind = "stop"
                          /\ l.call = proc[r].ip
                          /\ l.dtor = proc[r].dtor)

\* every timer on a stack passed both filters when it was pushed
C17_StackState ==
  \A r \in Procs :
    /\ \A k \in 1..Len(proc[r].timers) :
         /\ proc[r].timers[k].level <= Cfg.level
         /\ Cfg.ranks = "all" \/ r = 0
    /\ (Cfg.ranks = "zero" /\ r # 0) => proc[r].timers = <<>>

\* a step that shortens the stack of rank r pops its top, and the last line
\* rank r has printed is the stop line of that timer, the only one of this
\* timer_stop
C17_PopStep ==
  \A r \in Procs :
    Len(proc'[r].timers) < Len(proc[r].timers) =>
      LET t == back(proc[r].timers)
          mine == SelectSeq(out', LAMBDA l : l.rank = r)
          stops == StopsInCall(out', r)
      IN  /\ proc'[r].timers = pop_back(proc[r].timers)
          /\ Len(mine) >= 1
          /\ back(mine).kind = "stop"
          /\ back(mine).name = t.name
          /\ back(mine).label = log_fn(t.level)
          /\ back(mine).call = proc[r].ip
          /\ Len(stops) = IF proc[r].dtor THEN proc[r].it + 1 ELSE 1

\* C17: every timer on a rank's stack has a severity that passes the
\* configured level and sits on a rank that passes the rank filter; so each
\* pop of timer_stop comes with exactly one stop line for the popped timer,
\* and under Ranks::zero the stack of every rank other than 0 stays empty.
C17_NoSilentPop ==
  []C17_StackState /\ [][C17_PopStep]_vars

C17_Witness ==
  /\ Cfg.ranks = "zero"
  /\ Cfg.size >= 2
  /\ Cfg.level = emerg
  /\ Len(prog) = 2
  /\ prog[1].op = "timer_start"
  /\ prog[1].lvl = emerg
  /\ prog[2].op = "timer_stop"
  /\ \A r \in Procs : proc[r].ip = 2 /\ proc[r].pc = "idle" /\ proc[r].timers = <<>>
  /\ Len(out) = 2
  /\ out[2].kind = "stop"
  /\ out[2].rank = 0

\* C18: in the destructor's loop over the timers, the position the loop reads
\* at each turn is still inside the stack as it is at that turn: no turn
\* reads a slot that an earlier turn's timer_stop has popped.
C18_LoopReadsLiveSlot ==
  \A r \in Procs :
    (proc[r].pc = "dtor_loop" /\ proc[r].it < Len(proc[r].rng)) =>
      proc[r].it < Len(proc[r].timers)

\* C19: under Ranks::all, the lines of consecutive log calls that pass the
\* filters do not overlap: every line of call k is printed before every line
\* of call k+1, whatever the scheduling.
C19_CallsInOrder ==
  Cfg.ranks = "all" =>
    LET logs == Lines(LAMBDA l : l.kind = "log")
    IN  \A a \in 1..Len(logs) - 1 : logs[a].call <= logs[a + 1].call

C19_Witness ==
  /\ Cfg.ranks = "all"
  /\ Cfg.size >= 2
  /\ Len(prog) = 2
  /\ prog[1].op = "log"
  /\ prog[2].op = "log"
  /\ \A r \in Procs : proc[r].ip = 2 /\ proc[r].pc = "idle"
  /\ Len(out) = 2 * Cfg.size
  /\ \A a \in 1..Len(out) :
       out[a].call = IF a <= Cfg.size THEN 1 ELSE 2

=============================================================================
